---- MODULE Spec2Model ----
(***************************************************************************)
(* Model of package utils (pkg/utils/utils.go): HashFNV, Hash, RandToken,  *)
(* Secret.MarshalYAML, Secret.MarshalJSON, Find and RetryableError.        *)
(*                                                                         *)
(* Every function of the package is stateless, so the state of the model   *)
(* is the last call made: which function (op), its argument (arg) and how  *)
(* the call ended (res).  A call ends by returning a value or by a Go      *)
(* runtime panic.                                                          *)
(*                                                                         *)
(* Go strings whose contents matter are sequences: of byte values for the  *)
(* hash functions, of one-character strings for Secret and for the         *)
(* operator of Find.                                                       *)
(***************************************************************************)
EXTENDS Integers, Sequences, FiniteSets

VARIABLES op, arg, res

vars == <<op, arg, res>>

\* Longest input string given to HashFNV, Hash and Secret.
MaxLen == 2

\* Longest slice given to Find (both the haystack a and the list x).
MaxList == 2

\* How a call ends.
Return(v) == [kind |-> "return", val |-> v]

Panic == [kind |-> "panic"]

\* All sequences over S of length at most n.
SeqsUpTo(S, n) == UNION {[1..k -> S] : k \in 0..n}

(***************************************************************************)
(* RetryableError                                                          *)
(***************************************************************************)

\* syscall.Errno values the model draws from.
Errnos == {"ECONNREFUSED", "EPIPE", "ETIMEDOUT", "EAGAIN", "ECONNRESET"}

\* net.OpError.Op values: dial, read, write and one other kind.
Ops == {"dial", "read", "write", "accept"}

\* An error value: its dynamic type (dyn), and for a non-nil *net.OpError
\* its Op and the dynamic type of its Err (inner).  errno is the value of a
\* syscall.Errno, bare or inside the OpError (directly or wrapped in an
\* *os.SyscallError); tmo is what Timeout() of a net.Error other than
\* these answers.
MkErr(dyn, o, inner, errno, tmo) ==
    [dyn |-> dyn, Op |-> o, inner |-> inner, errno |-> errno, tmo |-> tmo]

NilErr == MkErr("nil", "", "nil", "", FALSE)

\* A nil *net.OpError stored in the error interface.
NilOpErrorPtr == MkErr("*net.OpError(nil)", "", "nil", "", FALSE)

\* An error with no Timeout method (errors.New).
PlainErr == MkErr("plain", "", "nil", "", FALSE)

Errors ==
    {NilErr, NilOpErrorPtr, PlainErr}
    \cup {MkErr("syscall.Errno", "", "nil", c, FALSE) : c \in Errnos}
    \cup {MkErr("net.Error", "", "nil", "", t) : t \in BOOLEAN}
    \cup {MkErr("*net.OpError", o, "nil", "", FALSE) : o \in Ops}
    \cup {MkErr("*net.OpError", o, "plain", "", FALSE) : o \in Ops}
    \cup {MkErr("*net.OpError", o, "net.Error", "", t) : o \in Ops, t \in BOOLEAN}
    \cup {MkErr("*net.OpError", o, i, c, FALSE) :
            o \in Ops, i \in {"syscall.Errno", "*os.SyscallError"}, c \in Errnos}

\* syscall.Errno.Timeout.
ErrnoTimeout(c) == c \in {"EAGAIN", "ETIMEDOUT"}

\* err.(net.Error): the dynamic type has Timeout and Temporary methods.
\* A nil *net.OpError has them too: the assertion looks at the type only.
IsNetError(e) ==
    e.dyn \in {"*net.OpError", "*net.OpError(nil)", "syscall.Errno", "net.Error"}

\* netErr.Timeout(): "true", "false", or "panic" when the receiver is a nil
\* *net.OpError, whose Timeout reads e.Err without a nil check.
Timeout(e) ==
    CASE e.dyn = "*net.OpError(nil)" -> "panic"
      [] e.dyn = "syscall.Errno" ->
            IF ErrnoTimeout(e.errno) THEN "true" ELSE "false"
      [] e.dyn = "net.Error" -> IF e.tmo THEN "true" ELSE "false"
      [] e.dyn = "*net.OpError" ->
            CASE e.inner \in {"syscall.Errno", "*os.SyscallError"} ->
                    IF ErrnoTimeout(e.errno) THEN "true" ELSE "false"
              [] e.inner = "net.Error" -> IF e.tmo THEN "true" ELSE "false"
              [] OTHER -> "false"
      [] OTHER -> "false"

\* The type switch of RetryableError, reached when the timeout test did not
\* return.  A case that returns nothing leaves the switch: Go has no
\* fallthrough, so an *net.OpError never reaches the syscall.Errno case.
TypeSwitch(e) ==
    CASE e.dyn = "*net.OpError(nil)" -> Panic
      [] e.dyn = "*net.OpError" ->
            IF e.Op = "dial" THEN Return(FALSE)
            ELSE IF e.Op = "read" THEN Return(TRUE)
            ELSE Return(FALSE)
      [] e.dyn = "syscall.Errno" ->
            IF e.errno = "ECONNREFUSED" THEN Return(TRUE) ELSE Return(FALSE)
      [] OTHER -> Return(FALSE)

\* Mutant: the dial rule is tried before the timeout rule.
RetryableErrorDialFirst(e) ==
    IF e.dyn = "*net.OpError" /\ e.Op = "dial" THEN Return(FALSE)
    ELSE IF IsNetError(e) /\ Timeout(e) = "panic" THEN Panic
    ELSE IF IsNetError(e) /\ Timeout(e) = "true" THEN Return(TRUE)
    ELSE TypeSwitch(e)

\* Mutant: a read failure is retried only when connection refused.
RetryableErrorReadRefused(e) ==
    IF IsNetError(e) /\ Timeout(e) = "panic" THEN Panic
    ELSE IF IsNetError(e) /\ Timeout(e) = "true" THEN Return(TRUE)
    ELSE IF e.dyn = "*net.OpError" /\ e.Op = "read"
         THEN Return(e.errno = "ECONNREFUSED")
    ELSE TypeSwitch(e)

\* Mutant: a write failure is retried like a read failure.
RetryableErrorWriteRetried(e) ==
    IF IsNetError(e) /\ Timeout(e) = "panic" THEN Panic
    ELSE IF IsNetError(e) /\ Timeout(e) = "true" THEN Return(TRUE)
    ELSE IF e.dyn = "*net.OpError" /\ e.Op = "write" THEN Return(TRUE)
    ELSE TypeSwitch(e)

RetryableError(e) ==
    IF IsNetError(e) /\ Timeout(e) = "panic" THEN Panic
    ELSE IF IsNetError(e) /\ Timeout(e) = "true" THEN Return(TRUE)
    ELSE TypeSwitch(e)

CallRetryableError ==
    \E e \in Errors :
        /\ op' = "RetryableError"
        /\ arg' = e
        /\ res' = RetryableError(e)

(***************************************************************************)
(* HashFNV, Hash, RandToken                                                *)
(***************************************************************************)

\* Byte values the input strings are made of ('a', 'b').
InputBytes == {97, 98}

Strings == SeqsUpTo(InputBytes, MaxLen)

\* A uint64 is four 16-bit limbs, least significant first, so that every
\* intermediate product stays within 32 bits.
RECURSIVE Xor(_, _, _)
\* Bitwise exclusive or of the low n bits of x and y.
Xor(x, y, n) ==
    IF n = 0 THEN 0
    ELSE ((x + y) % 2) + 2 * Xor(x \div 2, y \div 2, n - 1)

\* hash/fnv offset64 = 0xcbf29ce484222325.
Offset64 == <<8997, 33826, 40164, 52210>>

\* h * prime64 mod 2^64, prime64 = 0x100000001b3 = 2^40 + 435.
MulPrime64(h) ==
    LET p1 == h[1] * 435
        p2 == h[2] * 435 + (p1 \div 65536)
        p3 == h[3] * 435 + (p2 \div 65536) + (h[1] % 256) * 256
        p4 == h[4] * 435 + (p3 \div 65536) + (h[2] % 256) * 256 + (h[1] \div 256)
    IN  <<p1 % 65536, p2 % 65536, p3 % 65536, p4 % 65536>>

RECURSIVE Sum64From(_, _, _)
\* (*sum64a).Write: for each byte c, hash ^= c then hash *= prime64.
Sum64From(h, s, i) ==
    IF i > Len(s) THEN h
    ELSE Sum64From(
            MulPrime64(<<Xor(h[1], s[i], 16), h[2], h[3], h[4]>>), s, i + 1)

\* fnv.New64a(); h.Write([]byte(s)); h.Sum64().
Sum64(s) == Sum64From(Offset64, s, 1)

\* utf8 encoding of the rune r (runtime encoderune): an invalid code point
\* (a surrogate half or above 0x10FFFF) is encoded as U+FFFD.
EncodeRune(r) ==
    IF r < 128 THEN <<r>>
    ELSE IF r < 2048 THEN <<192 + (r \div 64), 128 + (r % 64)>>
    ELSE IF r > 1114111 \/ (r >= 55296 /\ r <= 57343) THEN <<239, 191, 189>>
    ELSE IF r < 65536
         THEN <<224 + (r \div 4096), 128 + ((r \div 64) % 64), 128 + (r % 64)>>
    ELSE <<240 + (r \div 262144), 128 + ((r \div 4096) % 64),
           128 + ((r \div 64) % 64), 128 + (r % 64)>>

\* string(v) of a uint64 (runtime intstring): the UTF-8 encoding of the code
\* point v, U+FFFD when v is not a rune.
IntString(h) ==
    IF h[4] # 0 \/ h[3] # 0 \/ h[2] > 16 THEN <<239, 191, 189>>
    ELSE EncodeRune(h[2] * 65536 + h[1])

HashFNV(s) == Return(IntString(Sum64(s)))

\* crypto.Hash selectors the model draws from; "unset" is the zero value.
HashFuncs == {"MD4", "MD5", "SHA1", "SHA224", "SHA256", "SHA384", "SHA512", "unset"}

\* The switch of Hash: the cases that set h.
Supported == {"MD5", "SHA1", "SHA256", "SHA512"}

\* hash.Hash.Size of the handle each case builds, in bytes.
Size(f) ==
    CASE f = "MD5" -> 16
      [] f = "SHA1" -> 20
      [] f = "SHA256" -> 32
      [] f = "SHA512" -> 64

RECURSIVE ByteSum(_, _)
ByteSum(s, i) == IF i > Len(s) THEN 0 ELSE s[i] + ByteSum(s, i + 1)

\* h.Sum(nil): Size(f) bytes that depend on the algorithm and the input.
\* The compression functions are the library's; the bytes here stand for
\* them, only their number is the library's.
Sum(f, s) == [i \in 1..Size(f) |-> (ByteSum(s, 1) * 31 + i * 7 + Size(f)) % 256]

HexDigits == <<"0", "1", "2", "3", "4", "5", "6", "7",
               "8", "9", "a", "b", "c", "d", "e", "f">>

\* fmt.Sprintf("%x", b) of a byte slice: two lowercase digits per byte.
Sprintfx(b) ==
    [i \in 1..(2 * Len(b)) |->
        IF i % 2 = 1 THEN HexDigits[(b[(i + 1) \div 2] \div 16) + 1]
        ELSE HexDigits[(b[i \div 2] % 16) + 1]]

\* Hash: an unmatched selector leaves h nil and h.Write panics.
Hash(s, f) ==
    IF f \in Supported THEN Return(Sprintfx(Sum(f, s)))
    ELSE Panic

\* Length of the buffer of RandToken.
TokenBytes == 16

\* Byte values rand.Read is taken to deliver.
RandBytes == {0, 7, 171, 255}

\* RandToken: n is the number of bytes rand.Read filled (fewer than the
\* buffer when it returns an error), with x and y alternating; the rest of
\* the buffer keeps the zeros of make.  The error is discarded.
RandToken(n, x, y) ==
    Return(Sprintfx([i \in 1..TokenBytes |->
                        IF i > n THEN 0 ELSE IF i % 2 = 1 THEN x ELSE y]))

CallHashFNV ==
    \E s \in Strings :
        /\ op' = "HashFNV"
        /\ arg' = s
        /\ res' = HashFNV(s)

CallHash ==
    \E s \in Strings, f \in HashFuncs :
        /\ op' = "Hash"
        /\ arg' = [s |-> s, f |-> f]
        /\ res' = Hash(s, f)

CallRandToken ==
    \E n \in 0..TokenBytes, x \in RandBytes, y \in RandBytes :
        /\ op' = "RandToken"
        /\ arg' = [n |-> n, err |-> n < TokenBytes, x |-> x, y |-> y]
        /\ res' = RandToken(n, x, y)

(***************************************************************************)
(* Secret                                                                  *)
(***************************************************************************)

\* Characters a Secret is made of; all but "x" also occur in the marker.
SecretChars == {"x", "s", "<"}

Secrets == SeqsUpTo(SecretChars, MaxLen)

\* The literal <secret> of both hooks.
Marker == <<"<", "s", "e", "c", "r", "e", "t", ">">>

\* What a hook returns: a value and a nil error.  The value is a Go string,
\* a byte slice, or nil.
HookValue(type, chars) == Return([type |-> type, chars |-> chars, err |-> "nil"])

\* Mutant: the hook returns the secret itself.
MarshalYAMLPlain(s) ==
    IF s # <<>> THEN HookValue("string", s) ELSE HookValue("nil", <<>>)

MarshalYAML(s) ==
    IF s # <<>> THEN HookValue("string", Marker) ELSE HookValue("nil", <<>>)

\* The raw string literal of MarshalJSON holds the quotes: the bytes are
\* the JSON text of the marker.
MarshalJSON(s) ==
    IF s # <<>> THEN HookValue("[]byte", <<"\"">> \o Marker \o <<"\"">>)
    ELSE HookValue("nil", <<>>)

CallMarshalYAML ==
    \E s \in Secrets :
        /\ op' = "MarshalYAML"
        /\ arg' = s
        /\ res' = MarshalYAML(s)

CallMarshalJSON ==
    \E s \in Secrets :
        /\ op' = "MarshalJSON"
        /\ arg' = s
        /\ res' = MarshalJSON(s)

(***************************************************************************)
(* Find                                                                    *)
(***************************************************************************)

\* Strings the slices of Find are made of.
Names == {"a", "b"}

Slices == SeqsUpTo(Names, MaxList)

\* The op argument, as written by callers.
BoolOps == {<<"A", "N", "D">>, <<"a", "n", "d">>, <<"O", "R">>, <<"O", "r">>}

\* The x argument: a string, a slice of strings, a value of another kind,
\* or the nil interface.
MkX(kind, str, elems) == [kind |-> kind, str |-> str, elems |-> elems]

Xs ==
    {MkX("String", n, <<>>) : n \in Names}
    \cup {MkX("Slice", "", l) : l \in Slices}
    \cup {MkX("Int", "", <<>>), MkX("nil", "", <<>>)}

\* strings.ToLower, on the letters of BoolOps.
ToLower(s) ==
    [i \in 1..Len(s) |->
        CASE s[i] = "A" -> "a"
          [] s[i] = "N" -> "n"
          [] s[i] = "D" -> "d"
          [] s[i] = "O" -> "o"
          [] s[i] = "R" -> "r"
          [] OTHER -> s[i]]

\* case reflect.String: r is set when some element of a equals x.
FindString(a, x) == \E i \in 1..Len(a) : a[i] = x

RECURSIVE FindSlice(_, _, _, _, _)
\* case reflect.Slice: the loop from index i on, r being the value the
\* iterations so far left.  Each iteration overwrites r; the loop breaks
\* only when the operator is or and r is true.
FindSlice(a, elems, o, i, r) ==
    IF i > Len(elems) THEN r
    ELSE LET found == FindString(a, elems[i])
         IN  IF ToLower(o) = <<"o", "r">> /\ found THEN found
             ELSE FindSlice(a, elems, o, i + 1, found)

\* Find: reflect.TypeOf(nil) is nil and Kind on it panics; a kind that is
\* neither String nor Slice leaves r false.
Find(a, x, o) ==
    CASE x.kind = "nil" -> Panic
      [] x.kind = "String" -> Return(FindString(a, x.str))
      [] x.kind = "Slice" -> Return(FindSlice(a, x.elems, o, 1, FALSE))
      [] OTHER -> Return(FALSE)

CallFind ==
    \E a \in Slices, x \in Xs, o \in BoolOps :
        /\ op' = "Find"
        /\ arg' = [a |-> a, x |-> x, op |-> o]
        /\ res' = Find(a, x, o)

Init ==
    /\ op = "none"
    /\ arg = NilErr
    /\ res = Return(FALSE)

Next ==
    \/ CallRetryableError
    \/ CallHashFNV
    \/ CallHash
    \/ CallRandToken
    \/ CallMarshalYAML
    \/ CallMarshalJSON
    \/ CallFind

Spec == Init /\ [][Next]_vars

(***************************************************************************)
(* Properties                                                              *)
(***************************************************************************)

\* The call returned the value v.
Returned(v) == res.kind = "return" /\ res.val = v

\* The operation-kind tag of a failure: that of a non-nil *net.OpError,
\* "none" for any other error value.
OpKind(e) ==
    IF e.dyn # "*net.OpError" THEN "none"
    ELSE IF e.Op \in {"dial", "read", "write"} THEN e.Op
    ELSE "other"

\* The elements of a slice.
Range(l) == {l[i] : i \in 1..Len(l)}

\* C1: a failure flagged as a timeout is retryable whatever its operation
\* kind and error code; a timed-out dial is retryable.
TimeoutIsRetryable ==
    (op = "RetryableError" /\ Timeout(arg) = "true") => Returned(TRUE)

\* A timed-out dial, by error code and by a timeout error, classified.
TimeoutDialClassified ==
    /\ op = "RetryableError"
    /\ OpKind(arg) = "dial"
    /\ arg.errno = "ETIMEDOUT"
    /\ Timeout(arg) = "true"
    /\ Returned(TRUE)

\* C2: a failure that is no timeout, of operation kind neither dial nor
\* read, is retryable when its error code is ECONNREFUSED, also when the
\* code is inside a failure that has an operation-kind tag.
ConnRefusedIsRetryable ==
    (/\ op = "RetryableError"
     /\ Timeout(arg) = "false"
     /\ OpKind(arg) \notin {"dial", "read"}
     /\ arg.errno = "ECONNREFUSED") => Returned(TRUE)

\* C3: for a failure that is no timeout the operation-kind rules win over
\* the error-code rule: dial is not retryable even with ECONNREFUSED, read
\* is retryable even with another code.
OpKindBeforeCode ==
    (op = "RetryableError" /\ Timeout(arg) = "false") =>
        /\ OpKind(arg) = "dial" => Returned(FALSE)
        /\ OpKind(arg) = "read" => Returned(TRUE)

\* A refused dial classified not retryable.
RefusedDialClassified ==
    /\ op = "RetryableError"
    /\ OpKind(arg) = "dial"
    /\ arg.errno = "ECONNREFUSED"
    /\ Returned(FALSE)

\* C4: a failure that matches no rule (no timeout, operation kind neither
\* dial nor read, error code absent or not ECONNREFUSED) is not retryable,
\* and a write failure that is no timeout is never retryable.
DefaultNotRetryable ==
    (op = "RetryableError" /\ Timeout(arg) = "false") =>
        /\ (OpKind(arg) \notin {"dial", "read"} /\ arg.errno # "ECONNREFUSED")
              => Returned(FALSE)
        /\ OpKind(arg) = "write" => Returned(FALSE)

\* A write failure with EPIPE classified not retryable.
WritePipeClassified ==
    /\ op = "RetryableError"
    /\ OpKind(arg) = "write"
    /\ arg.errno = "EPIPE"
    /\ Returned(FALSE)

\* C5: Hash with a selector outside MD5, SHA1, SHA256, SHA512 ends in an
\* UnsupportedAlgorithm error returned to the caller, never in a write
\* through the nil handle.
UnsupportedAlgorithmIsError ==
    (op = "Hash" /\ arg.f \notin Supported) => res.kind = "error"

\* C6: when the random source fails to fill the buffer, RandToken ends in
\* an EntropyUnavailable failure and returns no token.
EntropyFailureIsFatal ==
    (op = "RandToken" /\ arg.err) => res.kind = "error"

\* C7: RetryableError returns a boolean for every error value, the nil
\* *net.OpError in the interface included; it never panics.
RetryableErrorTotal ==
    op = "RetryableError" => (res.kind = "return" /\ res.val \in BOOLEAN)

\* The string a hook's value stands for: the string itself, or the string
\* whose JSON text the bytes are.
Shown(v) ==
    IF v.type = "[]byte" /\ Len(v.chars) >= 2
       /\ v.chars[1] = "\"" /\ v.chars[Len(v.chars)] = "\""
    THEN SubSeq(v.chars, 2, Len(v.chars) - 1)
    ELSE v.chars

\* C8: both hooks give nil and no error for the empty Secret and the
\* marker <secret> for every other one; the output is the same for every
\* Secret that is as empty as the one given.
SecretIsRedacted ==
    /\ op = "MarshalYAML" =>
        /\ res.kind = "return" /\ res.val.err = "nil"
        /\ (arg = <<>>) <=> (res.val.type = "nil")
        /\ arg # <<>> => (res.val.type = "string" /\ res.val.chars = Marker)
        /\ \A t \in Secrets : ((t = <<>>) <=> (arg = <<>>)) => MarshalYAML(t) = res
        /\ MarshalJSON(arg).val.err = "nil"
        /\ (MarshalJSON(arg).val.type = "nil") <=> (res.val.type = "nil")
        /\ Shown(MarshalJSON(arg).val) = Shown(res.val)
    /\ op = "MarshalJSON" =>
        /\ res.kind = "return" /\ res.val.err = "nil"
        /\ (arg = <<>>) <=> (res.val.type = "nil")
        /\ arg # <<>> => (res.val.type = "[]byte" /\ Shown(res.val) = Marker)
        /\ \A t \in Secrets : ((t = <<>>) <=> (arg = <<>>)) => MarshalJSON(t) = res
        /\ MarshalYAML(arg).val.err = "nil"
        /\ (MarshalYAML(arg).val.type = "nil") <=> (res.val.type = "nil")
        /\ Shown(MarshalYAML(arg).val) = Shown(res.val)

\* A Secret that shares no character with the marker, serialized.
SecretXSerialized ==
    /\ op = "MarshalYAML"
    /\ arg = <<"x">>
    /\ res.val.chars = Marker

\* The hex length of each supported algorithm's digest.
HexLen(f) ==
    CASE f = "MD5" -> 32
      [] f = "SHA1" -> 40
      [] f = "SHA256" -> 64
      [] f = "SHA512" -> 128

\* C9: the width of a digest depends on the algorithm only: Hash gives
\* 32/40/64/128 hex characters, HashFNV gives one width for every 64-bit
\* value, and inputs of different 64-bit FNV-1a values get different
\* fingerprints.
DigestWidthFixed ==
    /\ (op = "Hash" /\ arg.f \in Supported) =>
            (res.kind = "return" /\ Len(res.val) = HexLen(arg.f))
    /\ op = "HashFNV" =>
            /\ res.kind = "return"
            /\ \A t \in Strings :
                /\ Len(HashFNV(t).val) = Len(res.val)
                /\ Sum64(t) # Sum64(arg) => HashFNV(t).val # res.val

\* C10: with x a list, Find under AND is true iff every member of x is in
\* a, under OR iff some member is; with x a string, iff x is in a.  The
\* AND case is stated for a list that has a member.
FindAllOrAny ==
    /\ (op = "Find" /\ arg.x.kind = "String") =>
            Returned(arg.x.str \in Range(arg.a))
    /\ (/\ op = "Find" /\ arg.x.kind = "Slice" /\ arg.x.elems # <<>>
        /\ ToLower(arg.op) = <<"a", "n", "d">>) =>
            Returned(\A m \in Range(arg.x.elems) : m \in Range(arg.a))
    /\ (op = "Find" /\ arg.x.kind = "Slice" /\ ToLower(arg.op) = <<"o", "r">>) =>
            Returned(\E m \in Range(arg.x.elems) : m \in Range(arg.a))

====
